---- MODULE Spec2Model ----
(***************************************************************************)
(* Resumable page-processing engine of @nestify/document:                  *)
(*   - RedisDocumentStateStore  (progress record, page results, sets)      *)
(*   - DocumentTaskService      (processWithPagination, processAsWhole,    *)
(*                               cancelTask, deleteTask)                   *)
(*   - AiSdkOcrService.processDocument (counting semaphore + wait queue)   *)
(* Every await of the source is an interleaving point of the model.        *)
(***************************************************************************)
EXTENDS Integers, Sequences, FiniteSets, TLC

\* ------------------------------------------------------------------ bounds
MaxPages == 2
MaxInvocations == 2
MaxEnvEvents == 1
MaxK == 2
MaxQueue == 3
MaxWorkers == 2
MaxL1Size == 2
MaxClock == 2
MaxIdLen == 2
MaxTasks == 2
MaxThreshold == 2
MaxExecutes == 4
MaxTime == 3
MaxRequests == 2
MaxWindow == 2

\* --------------------------------------------------------------- constants
Pages == 1..MaxPages
\* pdfDoc.getPageCount(): a PDF without pages counts 0
TotalChoices == 0..MaxPages

PENDING == "pending"
PROCESSING == "processing"
COMPLETED == "completed"
FAILED == "failed"
CANCELLED == "cancelled"
ABSENT == "none"

TaskStatus == {PENDING, PROCESSING, COMPLETED, FAILED, CANCELLED}
Terminal == {COMPLETED, FAILED, CANCELLED}

\* a key that redis.get answers with null
NoProgress ==
  [total |-> 0, completed |-> 0, failed |-> 0, percentage |-> 0,
   status |-> ABSENT, endTime |-> 0]

\* new Date().toISOString(): a time stamp that is set (0 is "no endTime")
Now == 1

NoResult == [status |-> ABSENT, error |-> "none"]

NoConfig == [only |-> <<>>, skip |-> {}]

ConfigChoices ==
  { NoConfig,
    [only |-> <<>>, skip |-> {1}],
    [only |-> <<2, 1>>, skip |-> {}] }

NoRet == [kind |-> "none", completed |-> 0, failed |-> 0, status |-> ABSENT]

\* the locals of a call that has not started
IdleCall ==
  [pc |-> "idle", mode |-> "none", totalPages |-> 0, config |-> NoConfig,
   progress |-> NoProgress, pagesToProcess |-> <<>>, idx |-> 1,
   results |-> <<>>, pageErr |-> "none", ret |-> NoRet,
   \* observation of what the call did
   invoked |-> <<>>, resumeProcessed |-> {}, threwBy |-> "none",
   cancelledDuring |-> FALSE, stopAsked |-> FALSE]

\* the result of updateDocumentProgress before the script has answered
NoUpdate == [completed |-> 0, failed |-> 0, percentage |-> 0,
             isCompleted |-> FALSE]

Workers == 1..MaxWorkers

\* a caller of the store that has not called anything
IdleWorker == [pc |-> "idle", asked |-> 0, got |-> NoProgress,
               updated |-> NoUpdate]

NoKeys == [progress |-> FALSE, processed |-> FALSE, failed |-> FALSE,
           pages |-> {}]

VARIABLES
  \* ---- the key/value store (one task)
  progress,        \* document:task:<id>:progress
  pageResults,     \* document:task:<id>:page:<i>
  processedPages,  \* document:task:<id>:processed (set)
  failedPages,     \* document:task:<id>:failed (set)
  \* ---- one orchestrating call (processWithPagination / processAsWhole)
  call,
  \* ---- cancelTask and deleteTask calls of other callers
  cpc, cseen, cprog, delpc, delKeys,
  \* ---- the page count of the task's PDF (getTotalPages)
  docPages,
  \* ---- calls started, and disturbances so far (cancel, delete, crash,
  \*      rejected store call, throwing callback)
  nInv, nEnv,
  \* ---- AiSdkOcrService.processDocument
  concurrency, queue, qi, lpc, activeCount, waitQueue, inflight, releasing,
  ocrResults, started, rejected,
  \* ---- concurrent callers of the store's own operations
  workers,
  \* ---- MultiLevelCacheService: the L1 Map in insertion order, Date.now(),
  \*      the configuration, get() calls awaiting Redis, and the keys of L1
  \*      in the order of their last get or set (oldest first)
  l1Cache, cacheNow, l1MaxSize, enableL2, l2Reads, recency,
  \* ---- the keys present in Redis, the task ids whose progress record has
  \*      an endTime before the cutoff, and the deletion in progress
  redisKeys, oldTasks, del,
  \* ---- CircuitBreaker: its fields, Date.now(), its config, the execute()
  \*      calls whose fn is running, and the successes in a row of calls
  \*      admitted since the breaker last left OPEN
  state, halfOpenInFlight, stats, nextAttempt, breakerNow, breakerConfig,
  executions, probeSuccesses,
  \* ---- RateLimiterService: the limiter of one key, Date.now(), the
  \*      config the key's limiter was last created with, and the times of
  \*      the calls answered allowed = true under that config
  limiter, limiterNow, keyConfig, allowedAt

storeVars == <<progress, pageResults, processedPages, failedPages>>
otherVars == <<cpc, cseen, cprog, delpc, delKeys>>
budgetVars == <<nInv, nEnv, docPages>>
taskVars == <<storeVars, call, otherVars, budgetVars>>
ocrVars == <<concurrency, queue, qi, lpc, activeCount, waitQueue, inflight,
             releasing, ocrResults, started, rejected>>
\* MultiLevelCacheService
cacheVars == <<l1Cache, cacheNow, l1MaxSize, enableL2, l2Reads, recency>>
\* the services that share nothing with the task engine
\* the Redis keyspace seen by deleteTask and cleanupOldTasks
keyVars == <<redisKeys, oldTasks, del>>
\* CircuitBreaker
breakerVars == <<state, halfOpenInFlight, stats, nextAttempt, breakerNow,
                 breakerConfig, executions, probeSuccesses>>
\* RateLimiterService, one key
limiterVars == <<limiter, limiterNow, keyConfig, allowedAt>>
utilVars == <<cacheVars, keyVars, breakerVars, limiterVars>>
engineVars == <<taskVars, ocrVars, workers>>
notCache == <<engineVars, keyVars, breakerVars, limiterVars>>
notKey == <<engineVars, cacheVars, breakerVars, limiterVars>>
notBreaker == <<engineVars, cacheVars, keyVars, limiterVars>>
notLimiter == <<engineVars, cacheVars, keyVars, breakerVars>>
vars == <<taskVars, ocrVars, workers, utilVars>>

\* ------------------------------------------------------------ pure helpers

\* a page range that stops one page short
AllPagesButLast(n) == [i \in 1..(n - 1) |-> i]

\* Array.from({length: n}, (_, i) => i + 1)
AllPages(n) == [i \in 1..n |-> i]

\* math.floor((completed + failed) / total * 100); exact for the totals used
Percentage(completed, failed, total) ==
  IF total > 0 THEN ((completed + failed) * 100) \div total ELSE 0

\* ------------------------------------------------------- RedisDocumentStateStore
\* a get-or-create that stores the caller's record whatever is there
GetOrCreateAlwaysNew(existing, total) ==
  [total |-> total, completed |-> 0, failed |-> 0, percentage |-> 0,
   status |-> PENDING, endTime |-> 0]

\* the Lua script of getOrCreateProgress: the record it returns
GetOrCreateRecord(existing, total) ==
  IF existing.status # ABSENT THEN existing
  ELSE [total |-> total, completed |-> 0, failed |-> 0, percentage |-> 0,
        status |-> PENDING, endTime |-> 0]

\* a policy under which any failed page fails the task
FinalStatusAnyFailure(completed, failed) ==
  IF failed > 0 THEN FAILED ELSE COMPLETED

\* the status branch of the Lua script of updateDocumentProgress
FinalStatus(completed, failed) ==
  IF failed > 0 /\ completed = 0 THEN FAILED ELSE COMPLETED

\* an update that writes the counters the record already had
UpdateKeepsCounters(p, nProcessed, nFailed, t) ==
  IF p.completed + p.failed >= p.total
    THEN [p EXCEPT !.status = FinalStatus(p.completed, p.failed),
                   !.endTime = t]
    ELSE p

\* the Lua script of updateDocumentProgress: the record it stores
UpdateDocumentProgressRecord(p, nProcessed, nFailed, t) ==
  LET base == [p EXCEPT !.completed = nProcessed,
                        !.failed = nFailed,
                        !.percentage = Percentage(nProcessed, nFailed, p.total)]
  IN IF nProcessed + nFailed >= p.total
       THEN [base EXCEPT !.status = FinalStatus(nProcessed, nFailed),
                         !.endTime = t]
       ELSE base

\* the Lua script of updateDocumentProgress: the result it returns
UpdateDocumentProgressResult(rec) ==
  [completed |-> rec.completed, failed |-> rec.failed,
   percentage |-> rec.percentage,
   isCompleted |-> rec.status \in {COMPLETED, FAILED}]

\* cancelTask: the record it writes back
CancelRecord(p, t) == [p EXCEPT !.status = CANCELLED, !.endTime = t]

\* the resume filter without its test of the processed set
KeepPageNoResume(page, processed, total, cfg) ==
  /\ page >= 1
  /\ page <= total
  /\ page \notin cfg.skip

\* the filter callbacks of determinePagesToProcess
KeepPage(page, processed, total, cfg) ==
  /\ page >= 1
  /\ page <= total
  /\ page \notin processed
  /\ page \notin cfg.skip

RECURSIVE FilterPages(_, _, _, _)
FilterPages(s, processed, total, cfg) ==
  IF s = <<>> THEN <<>>
  ELSE (IF KeepPage(Head(s), processed, total, cfg) THEN <<Head(s)>> ELSE <<>>)
       \o FilterPages(Tail(s), processed, total, cfg)

\* a resume set computed from the page range alone
DetermineAllPages(processed, total, cfg) ==
  IF Len(cfg.only) > 0
    THEN FilterPages(cfg.only, {}, total, cfg)
    ELSE FilterPages(AllPages(total), {}, total, cfg)

\* determinePagesToProcess
DeterminePagesToProcess(processed, total, cfg) ==
  IF Len(cfg.only) > 0
    THEN FilterPages(cfg.only, processed, total, cfg)
    ELSE FilterPages(AllPages(total), processed, total, cfg)

\* keys matched by document:task:<id>:*
ExistingKeys ==
  [progress |-> progress.status # ABSENT,
   processed |-> processedPages # {},
   failed |-> failedPages # {},
   pages |-> { i \in Pages : pageResults[i].status # ABSENT }]

\* ----------------------------------------------- DocumentTaskService helpers
\* a call that never takes the "already completed" return
NeverCompleted(p) == FALSE

\* if (progress.status === TaskStatus.COMPLETED) return ...
AlreadyCompleted(p) == p.status = COMPLETED

\* if (currentProgress?.status === TaskStatus.CANCELLED) break
IsCancelled(p) == p.status = CANCELLED

\* updateProgress(taskId, {...progress, status: PROCESSING})
StartProcessingRecord(p) == [p EXCEPT !.status = PROCESSING]

\* where the for-loop goes after the page at position i - 1
LoopPc(i, list) == IF i <= Len(list) THEN "p_check" ELSE "p_aggregate"

\* a page failure that leaves the loop through the outer catch
ProcessorThrowsAborts == "threw"

\* where a rejected page processor takes the loop body: the catch block
ProcessorThrowsPc == "p_saveFail"

Running(c) == c.pc \notin {"idle", "returned", "threw"}

CurrentPage == call.pagesToProcess[call.idx]

SuccessResult(page) == [pageIndex |-> page, status |-> "success", error |-> "none"]
FailedResult(page, err) == [pageIndex |-> page, status |-> "failed", error |-> err]

\* updateProgress of the success path of processAsWhole
WholeCompletedRecord(t) ==
  [total |-> 1, completed |-> 1, failed |-> 0, percentage |-> 100,
   status |-> COMPLETED, endTime |-> t]

\* a catch block that stores the failure as a completion
WholeFailedAsCompleted(t) ==
  [total |-> 1, completed |-> 1, failed |-> 0, percentage |-> 100,
   status |-> COMPLETED, endTime |-> t]

\* updateProgress of the catch block of processAsWhole
WholeFailedRecord(t) ==
  [total |-> 1, completed |-> 0, failed |-> 1, percentage |-> 0,
   status |-> FAILED, endTime |-> t]

\* -------------------------------------------------------------------- Init
InitTask ==
  /\ progress = NoProgress
  /\ pageResults = [i \in Pages |-> NoResult]
  /\ processedPages = {}
  /\ failedPages = {}
  /\ call = IdleCall
  /\ cpc = "idle" /\ cseen = ABSENT /\ cprog = NoProgress
  /\ delpc = "idle" /\ delKeys = NoKeys
  /\ nInv = 0 /\ nEnv = 0
  /\ docPages \in TotalChoices

\* ------------------------------------------------- processWithPagination
StartPaginated ==
  /\ ~Running(call)
  /\ nInv < MaxInvocations
  /\ nInv' = nInv + 1
  /\ \E cfg \in ConfigChoices :
       call' = [IdleCall EXCEPT !.pc = "p_getOrCreate", !.mode = "paginated",
                                !.totalPages = docPages, !.config = cfg]
  /\ UNCHANGED <<storeVars, otherVars, nEnv, docPages>>
  /\ UNCHANGED <<ocrVars, workers, utilVars>>

PGetOrCreate ==
  /\ call.pc = "p_getOrCreate"
  /\ LET rec == GetOrCreateRecord(progress, call.totalPages)
     IN /\ progress' = rec
        /\ call' = IF AlreadyCompleted(rec)
                     THEN [call EXCEPT !.pc = "returned", !.progress = rec,
                             !.resumeProcessed = processedPages,
                             !.ret = [kind |-> "result",
                                      completed |-> rec.completed,
                                      failed |-> rec.failed,
                                      status |-> ABSENT]]
                     ELSE [call EXCEPT !.pc = "p_setProcessing",
                                       !.progress = rec]
  /\ UNCHANGED <<pageResults, processedPages, failedPages, otherVars, budgetVars>>
  /\ UNCHANGED <<ocrVars, workers, utilVars>>

PSetProcessing ==
  /\ call.pc = "p_setProcessing"
  /\ progress' = StartProcessingRecord(call.progress)
  /\ call' = [call EXCEPT !.pc = "p_determine", !.progress = NoProgress]
  /\ UNCHANGED <<pageResults, processedPages, failedPages, otherVars, budgetVars>>
  /\ UNCHANGED <<ocrVars, workers, utilVars>>

PDetermine ==
  /\ call.pc = "p_determine"
  /\ LET list == DeterminePagesToProcess(processedPages, call.totalPages,
                                         call.config)
     IN call' = [call EXCEPT !.pagesToProcess = list,
                             !.resumeProcessed = processedPages,
                             !.idx = 1,
                             !.pc = LoopPc(1, list)]
  /\ UNCHANGED <<storeVars, otherVars, budgetVars>>
  /\ UNCHANGED <<ocrVars, workers, utilVars>>

\* getProgress, the cancellation test, and the call of pageProcessor
PCheck ==
  /\ call.pc = "p_check"
  /\ call' = IF IsCancelled(progress)
               THEN [call EXCEPT !.pc = "p_aggregate"]
               ELSE [call EXCEPT !.pc = "p_processing",
                                 !.invoked = Append(@, CurrentPage)]
  /\ UNCHANGED <<storeVars, otherVars, budgetVars>>
  /\ UNCHANGED <<ocrVars, workers, utilVars>>

PProcessorReturns ==
  /\ call.pc = "p_processing"
  /\ call' = [call EXCEPT !.pc = "p_saveOk"]
  /\ UNCHANGED <<storeVars, otherVars, budgetVars>>
  /\ UNCHANGED <<ocrVars, workers, utilVars>>

PProcessorThrows ==
  /\ call.pc = "p_processing"
  /\ call' = [call EXCEPT !.pc = ProcessorThrowsPc, !.pageErr = "E_page"]
  /\ UNCHANGED <<storeVars, otherVars, budgetVars>>
  /\ UNCHANGED <<ocrVars, workers, utilVars>>

PSaveOk ==
  /\ call.pc = "p_saveOk"
  /\ pageResults' = [pageResults EXCEPT ![CurrentPage] =
                       [status |-> "success", error |-> "none"]]
  /\ call' = [call EXCEPT !.pc = "p_markOk"]
  /\ UNCHANGED <<progress, processedPages, failedPages, otherVars, budgetVars>>
  /\ UNCHANGED <<ocrVars, workers, utilVars>>

PMarkOk ==
  /\ call.pc = "p_markOk"
  /\ processedPages' = processedPages \cup {CurrentPage}
  /\ call' = [call EXCEPT !.pc = "p_cbOk",
                          !.results = Append(@, SuccessResult(CurrentPage))]
  /\ UNCHANGED <<progress, pageResults, failedPages, otherVars, budgetVars>>
  /\ UNCHANGED <<ocrVars, workers, utilVars>>

PCbOkReturns ==
  /\ call.pc = "p_cbOk"
  /\ call' = [call EXCEPT !.idx = @ + 1,
                          !.pc = LoopPc(call.idx + 1, call.pagesToProcess)]
  /\ UNCHANGED <<storeVars, otherVars, budgetVars>>
  /\ UNCHANGED <<ocrVars, workers, utilVars>>

\* onPageSuccess resolves with false; the value of the await is dropped
PCbOkReturnsFalse ==
  /\ nEnv < MaxEnvEvents
  /\ nEnv' = nEnv + 1
  /\ call.pc = "p_cbOk"
  /\ call' = [call EXCEPT !.idx = @ + 1, !.stopAsked = TRUE,
                          !.pc = LoopPc(call.idx + 1, call.pagesToProcess)]
  /\ UNCHANGED <<storeVars, otherVars, nInv, docPages>>
  /\ UNCHANGED <<ocrVars, workers, utilVars>>

\* a throwing onPageSuccess is caught by the catch block of the page
PCbOkThrows ==
  /\ nEnv < MaxEnvEvents
  /\ nEnv' = nEnv + 1
  /\ call.pc = "p_cbOk"
  /\ call' = [call EXCEPT !.pc = "p_saveFail", !.pageErr = "E_callback"]
  /\ UNCHANGED <<storeVars, otherVars, nInv, docPages>>
  /\ UNCHANGED <<ocrVars, workers, utilVars>>

PSaveFail ==
  /\ call.pc = "p_saveFail"
  /\ pageResults' = [pageResults EXCEPT ![CurrentPage] =
                       [status |-> "failed", error |-> call.pageErr]]
  /\ call' = [call EXCEPT !.pc = "p_markFail"]
  /\ UNCHANGED <<progress, processedPages, failedPages, otherVars, budgetVars>>
  /\ UNCHANGED <<ocrVars, workers, utilVars>>

PMarkFail ==
  /\ call.pc = "p_markFail"
  /\ failedPages' = failedPages \cup {CurrentPage}
  /\ call' = [call EXCEPT !.pc = "p_cbFail",
                !.results = Append(@, FailedResult(CurrentPage, call.pageErr))]
  /\ UNCHANGED <<progress, pageResults, processedPages, otherVars, budgetVars>>
  /\ UNCHANGED <<ocrVars, workers, utilVars>>

PCbFailReturns ==
  /\ call.pc = "p_cbFail"
  /\ call' = [call EXCEPT !.idx = @ + 1, !.pageErr = "none",
                          !.pc = LoopPc(call.idx + 1, call.pagesToProcess)]
  /\ UNCHANGED <<storeVars, otherVars, budgetVars>>
  /\ UNCHANGED <<ocrVars, workers, utilVars>>

\* onPageFailed resolves with false; the value of the await is dropped
PCbFailReturnsFalse ==
  /\ nEnv < MaxEnvEvents
  /\ nEnv' = nEnv + 1
  /\ call.pc = "p_cbFail"
  /\ call' = [call EXCEPT !.idx = @ + 1, !.pageErr = "none",
                          !.stopAsked = TRUE,
                          !.pc = LoopPc(call.idx + 1, call.pagesToProcess)]
  /\ UNCHANGED <<storeVars, otherVars, nInv, docPages>>
  /\ UNCHANGED <<ocrVars, workers, utilVars>>

\* a throwing onPageFailed leaves the loop through the outer catch
PCbFailThrows ==
  /\ nEnv < MaxEnvEvents
  /\ nEnv' = nEnv + 1
  /\ call.pc = "p_cbFail"
  /\ call' = [call EXCEPT !.pc = "threw", !.threwBy = "callback"]
  /\ UNCHANGED <<storeVars, otherVars, nInv, docPages>>
  /\ UNCHANGED <<ocrVars, workers, utilVars>>

PAggregate ==
  /\ call.pc = "p_aggregate"
  /\ progress' = IF progress.status = ABSENT THEN progress
                 ELSE UpdateDocumentProgressRecord(progress,
                        Cardinality(processedPages), Cardinality(failedPages),
                        Now)
  /\ call' = [call EXCEPT !.pc = "p_final"]
  /\ UNCHANGED <<pageResults, processedPages, failedPages, otherVars, budgetVars>>
  /\ UNCHANGED <<ocrVars, workers, utilVars>>

PFinal ==
  /\ call.pc = "p_final"
  /\ call' = [call EXCEPT !.pc = "returned",
                !.ret = [kind |-> "result", completed |-> progress.completed,
                         failed |-> progress.failed, status |-> ABSENT]]
  /\ UNCHANGED <<storeVars, otherVars, budgetVars>>
  /\ UNCHANGED <<ocrVars, workers, utilVars>>

\* ---------------------------------------------------------- processAsWhole
StartWhole ==
  /\ ~Running(call)
  /\ nInv < MaxInvocations
  /\ nInv' = nInv + 1
  /\ call' = [IdleCall EXCEPT !.pc = "w_getOrCreate", !.mode = "whole",
                              !.totalPages = 1]
  /\ UNCHANGED <<storeVars, otherVars, nEnv, docPages>>
  /\ UNCHANGED <<ocrVars, workers, utilVars>>

WGetOrCreate ==
  /\ call.pc = "w_getOrCreate"
  /\ LET rec == GetOrCreateRecord(progress, 1)
     IN /\ progress' = rec
        /\ call' = IF AlreadyCompleted(rec)
                     THEN [call EXCEPT !.pc = "returned", !.progress = rec,
                             !.ret = [kind |-> "whole", completed |-> 0,
                                      failed |-> 0, status |-> COMPLETED]]
                     ELSE [call EXCEPT !.pc = "w_setProcessing",
                                       !.progress = rec]
  /\ UNCHANGED <<pageResults, processedPages, failedPages, otherVars, budgetVars>>
  /\ UNCHANGED <<ocrVars, workers, utilVars>>

\* updateProgress, then the call of processor()
WSetProcessing ==
  /\ call.pc = "w_setProcessing"
  /\ progress' = StartProcessingRecord(call.progress)
  /\ call' = [call EXCEPT !.pc = "w_processing", !.invoked = Append(@, 1),
                          !.progress = NoProgress]
  /\ UNCHANGED <<pageResults, processedPages, failedPages, otherVars, budgetVars>>
  /\ UNCHANGED <<ocrVars, workers, utilVars>>

WProcessorReturns ==
  /\ call.pc = "w_processing"
  /\ call' = [call EXCEPT !.pc = "w_markOk"]
  /\ UNCHANGED <<storeVars, otherVars, budgetVars>>
  /\ UNCHANGED <<ocrVars, workers, utilVars>>

WProcessorThrows ==
  /\ call.pc = "w_processing"
  /\ call' = [call EXCEPT !.pc = "w_markFail", !.pageErr = "E_page"]
  /\ UNCHANGED <<storeVars, otherVars, budgetVars>>
  /\ UNCHANGED <<ocrVars, workers, utilVars>>

WMarkOk ==
  /\ call.pc = "w_markOk"
  /\ processedPages' = processedPages \cup {1}
  /\ call' = [call EXCEPT !.pc = "w_updateOk"]
  /\ UNCHANGED <<progress, pageResults, failedPages, otherVars, budgetVars>>
  /\ UNCHANGED <<ocrVars, workers, utilVars>>

WUpdateOk ==
  /\ call.pc = "w_updateOk"
  /\ progress' = WholeCompletedRecord(Now)
  /\ call' = [call EXCEPT !.pc = "returned",
                !.ret = [kind |-> "whole", completed |-> 0, failed |-> 0,
                         status |-> COMPLETED]]
  /\ UNCHANGED <<pageResults, processedPages, failedPages, otherVars, budgetVars>>
  /\ UNCHANGED <<ocrVars, workers, utilVars>>

WMarkFail ==
  /\ call.pc = "w_markFail"
  /\ failedPages' = failedPages \cup {1}
  /\ call' = [call EXCEPT !.pc = "w_updateFail"]
  /\ UNCHANGED <<progress, pageResults, processedPages, otherVars, budgetVars>>
  /\ UNCHANGED <<ocrVars, workers, utilVars>>

WUpdateFail ==
  /\ call.pc = "w_updateFail"
  /\ progress' = WholeFailedRecord(Now)
  /\ call' = [call EXCEPT !.pc = "returned",
                !.ret = [kind |-> "whole", completed |-> 0, failed |-> 0,
                         status |-> FAILED]]
  /\ UNCHANGED <<pageResults, processedPages, failedPages, otherVars, budgetVars>>
  /\ UNCHANGED <<ocrVars, workers, utilVars>>

\* ------------------------------------------- a store call that rejects
\* inside the try of one page: the page's catch block takes over
PStoreFailsInPage ==
  /\ nEnv < MaxEnvEvents
  /\ nEnv' = nEnv + 1
  /\ call.pc \in {"p_saveOk", "p_markOk"}
  /\ call' = [call EXCEPT !.pc = "p_saveFail", !.pageErr = "E_store"]
  /\ UNCHANGED <<storeVars, otherVars, nInv, docPages>>
  /\ UNCHANGED <<ocrVars, workers, utilVars>>

\* anywhere else in processWithPagination: the outer catch rethrows
PStoreFailsOutside ==
  /\ nEnv < MaxEnvEvents
  /\ nEnv' = nEnv + 1
  /\ call.pc \in {"p_getOrCreate", "p_setProcessing", "p_determine",
                  "p_check", "p_saveFail", "p_markFail", "p_aggregate",
                  "p_final"}
  /\ call' = [call EXCEPT !.pc = "threw", !.threwBy = "store"]
  /\ UNCHANGED <<storeVars, otherVars, nInv, docPages>>
  /\ UNCHANGED <<ocrVars, workers, utilVars>>

\* in the try of processAsWhole: its catch block takes over
WStoreFailsInTry ==
  /\ nEnv < MaxEnvEvents
  /\ nEnv' = nEnv + 1
  /\ call.pc \in {"w_getOrCreate", "w_setProcessing", "w_markOk",
                  "w_updateOk"}
  /\ call' = [call EXCEPT !.pc = "w_markFail", !.pageErr = "E_store"]
  /\ UNCHANGED <<storeVars, otherVars, nInv, docPages>>
  /\ UNCHANGED <<ocrVars, workers, utilVars>>

\* in the catch of processAsWhole: logged and swallowed
WStoreFailsInCatch ==
  /\ nEnv < MaxEnvEvents
  /\ nEnv' = nEnv + 1
  /\ call.pc \in {"w_markFail", "w_updateFail"}
  /\ call' = [call EXCEPT !.pc = "returned",
                !.ret = [kind |-> "whole", completed |-> 0, failed |-> 0,
                         status |-> FAILED]]
  /\ UNCHANGED <<storeVars, otherVars, nInv, docPages>>
  /\ UNCHANGED <<ocrVars, workers, utilVars>>

\* the orchestrating process dies; the store keeps what was written
Crash ==
  /\ nEnv < MaxEnvEvents
  /\ nEnv' = nEnv + 1
  /\ Running(call)
  /\ call' = IdleCall
  /\ UNCHANGED <<storeVars, otherVars, nInv, docPages>>
  /\ UNCHANGED <<ocrVars, workers, utilVars>>

\* ------------------------------------------------------------- cancelTask
CancelRead ==
  /\ nEnv < MaxEnvEvents
  /\ nEnv' = nEnv + 1
  /\ cpc = "idle"
  /\ IF progress.status = ABSENT
       THEN UNCHANGED <<cpc, cseen, cprog>>
       ELSE /\ cpc' = "write"
            /\ cseen' = progress.status
            /\ cprog' = CancelRecord(progress, Now)
  /\ UNCHANGED <<storeVars, call, delpc, delKeys, nInv, docPages>>
  /\ UNCHANGED <<ocrVars, workers, utilVars>>

CancelWrite ==
  /\ cpc = "write"
  /\ progress' = cprog
  /\ cpc' = "idle"
  /\ cseen' = ABSENT
  /\ cprog' = NoProgress
  /\ call' = IF Running(call) THEN [call EXCEPT !.cancelledDuring = TRUE]
             ELSE call
  /\ UNCHANGED <<pageResults, processedPages, failedPages, delpc, delKeys,
                 budgetVars>>
  /\ UNCHANGED <<ocrVars, workers, utilVars>>

\* ------------------------------------------------------------- deleteTask
DeleteScan ==
  /\ nEnv < MaxEnvEvents
  /\ nEnv' = nEnv + 1
  /\ delpc = "idle"
  /\ delKeys' = ExistingKeys
  /\ delpc' = "del"
  /\ UNCHANGED <<storeVars, call, cpc, cseen, cprog, nInv, docPages>>
  /\ UNCHANGED <<ocrVars, workers, utilVars>>

DeleteDel ==
  /\ delpc = "del"
  /\ progress' = IF delKeys.progress THEN NoProgress ELSE progress
  /\ processedPages' = IF delKeys.processed THEN {} ELSE processedPages
  /\ failedPages' = IF delKeys.failed THEN {} ELSE failedPages
  /\ pageResults' = [i \in Pages |->
                       IF i \in delKeys.pages THEN NoResult ELSE pageResults[i]]
  /\ delpc' = "idle"
  /\ delKeys' = NoKeys
  /\ UNCHANGED <<call, cpc, cseen, cprog, budgetVars>>
  /\ UNCHANGED <<ocrVars, workers, utilVars>>

\* ------------------------------------------ AiSdkOcrService.processDocument
\* the page lists a caller can submit (processOnlyPages, or 1..totalPages)
RECURSIVE SeqsUpTo(_, _)
SeqsUpTo(S, n) ==
  IF n = 0 THEN {<<>>}
  ELSE LET shorter == SeqsUpTo(S, n - 1)
       IN shorter \cup { Append(q, x) : q \in shorter, x \in S }

\* the page numbers of a submitted list: the code only compares them (the
\* sort) and copies them into results, so two distinct numbers give every
\* order relation, repeated pages included
QueuePages == {1, 2}

QueueChoices == SeqsUpTo(QueuePages, MaxQueue)

\* this.concurrency = config.concurrency ?? 2
ConcurrencyChoices == 0..MaxK

\* a slot test that lets one call too many through
SlotFreeOffByOne(active, k) == active <= k

\* waitForSlot: TRUE when it answers Promise.resolve()
SlotFree(active, k) == active < k

\* what the for-loop does after starting position i - 1: leave the loop, or
\* call waitForSlot() for position i
LoopAfter(i, q, active, k) ==
  IF i > Len(q) THEN "awaitAll"
  ELSE IF SlotFree(active, k) THEN "ready" ELSE "waiting"

\* results.sort((a, b) => a.pageIndex - b.pageIndex), a stable sort
RECURSIVE InsertByPage(_, _)
InsertByPage(r, sorted) ==
  IF sorted = <<>> THEN <<r>>
  ELSE IF r.pageIndex < Head(sorted).pageIndex THEN <<r>> \o sorted
  ELSE <<Head(sorted)>> \o InsertByPage(r, Tail(sorted))

RECURSIVE SortByPage(_)
SortByPage(rs) ==
  IF rs = <<>> THEN <<>>
  ELSE InsertByPage(rs[Len(rs)], SortByPage(SubSeq(rs, 1, Len(rs) - 1)))

OcrIdle ==
  /\ concurrency = 1
  /\ queue = <<>>
  /\ qi = 1
  /\ lpc = "idle"
  /\ activeCount = 0
  /\ waitQueue = <<>>
  /\ inflight = {}
  /\ releasing = {}
  /\ ocrResults = <<>>
  /\ started = <<>>
  /\ rejected = FALSE
  /\ workers = [w \in Workers |-> IdleWorker]

\* processDocument has reached its first waitForSlot()
InitOcr ==
  /\ concurrency \in ConcurrencyChoices
  /\ queue \in QueueChoices
  /\ qi = 1
  /\ activeCount = 0
  /\ lpc = LoopAfter(1, queue, 0, concurrency)
  /\ waitQueue = IF lpc = "waiting" THEN <<"loop">> ELSE <<>>
  /\ inflight = {}
  /\ releasing = {}
  /\ ocrResults = <<>>
  /\ started = <<>>
  /\ rejected = FALSE
  /\ workers = [w \in Workers |-> IdleWorker]

\* the loop resumes after await waitForSlot(): activeCount++, processPage()
\* starts, and the next iteration runs up to its own await
LoopResume ==
  /\ lpc \in {"ready", "granted"}
  /\ activeCount' = activeCount + 1
  /\ inflight' = inflight \cup {qi}
  /\ started' = Append(started, queue[qi])
  /\ qi' = qi + 1
  /\ lpc' = LoopAfter(qi + 1, queue, activeCount + 1, concurrency)
  /\ waitQueue' = IF lpc' = "waiting" THEN Append(waitQueue, "loop")
                  ELSE waitQueue
  /\ UNCHANGED <<concurrency, queue, releasing, ocrResults, rejected>>
  /\ UNCHANGED <<taskVars, workers, utilVars>>

\* processPage(i) settles: its result is pushed and onPageSuccess returns;
\* .finally(releaseSlot) is due
PageSucceeds(i) ==
  /\ i \in inflight
  /\ inflight' = inflight \ {i}
  /\ ocrResults' = Append(ocrResults, [pageIndex |-> queue[i], status |-> "success"])
  /\ releasing' = releasing \cup {<<i, FALSE>>}
  /\ UNCHANGED <<concurrency, queue, qi, lpc, activeCount, waitQueue, started,
                 rejected>>
  /\ UNCHANGED <<taskVars, workers, utilVars>>

\* the page is recognized and its result pushed, onPageSuccess throws inside
\* the try: the catch pushes a 'failed' result and calls onPageFailed
PageSucceedsCallbackThrows(i) ==
  /\ nEnv < MaxEnvEvents
  /\ nEnv' = nEnv + 1
  /\ i \in inflight
  /\ inflight' = inflight \ {i}
  /\ ocrResults' = ocrResults \o
                     << [pageIndex |-> queue[i], status |-> "success"],
                        [pageIndex |-> queue[i], status |-> "failed"] >>
  /\ \E cbThrows \in BOOLEAN : releasing' = releasing \cup {<<i, cbThrows>>}
  /\ UNCHANGED <<concurrency, queue, qi, lpc, activeCount, waitQueue, started,
                 rejected>>
  /\ UNCHANGED <<storeVars, call, otherVars, nInv, docPages, workers,
                 utilVars>>

\* conversion or recognition throws: the catch pushes a 'failed' result and
\* calls onPageFailed, which returns or throws
PageFails(i) ==
  /\ i \in inflight
  /\ inflight' = inflight \ {i}
  /\ ocrResults' = Append(ocrResults, [pageIndex |-> queue[i], status |-> "failed"])
  /\ \E cbThrows \in BOOLEAN : releasing' = releasing \cup {<<i, cbThrows>>}
  /\ UNCHANGED <<concurrency, queue, qi, lpc, activeCount, waitQueue, started,
                 rejected>>
  /\ UNCHANGED <<taskVars, workers, utilVars>>

\* releaseSlot: activeCount--, and the permit goes to the first waiter
ReleaseSlot(r) ==
  /\ r \in releasing
  /\ releasing' = releasing \ {r}
  /\ activeCount' = activeCount - 1
  /\ IF Len(waitQueue) > 0
       THEN /\ waitQueue' = Tail(waitQueue)
            /\ lpc' = "granted"
       ELSE UNCHANGED <<waitQueue, lpc>>
  /\ rejected' = (rejected \/ r[2])
  /\ UNCHANGED <<concurrency, queue, qi, inflight, ocrResults, started>>
  /\ UNCHANGED <<taskVars, workers, utilVars>>

\* await Promise.all(tasks), then the sort
AwaitAllReturns ==
  /\ lpc = "awaitAll"
  /\ ~rejected
  /\ inflight = {} /\ releasing = {}
  /\ ocrResults' = SortByPage(ocrResults)
  /\ lpc' = "returned"
  /\ UNCHANGED <<concurrency, queue, qi, activeCount, waitQueue, inflight,
                 releasing, started, rejected>>
  /\ UNCHANGED <<taskVars, workers, utilVars>>

AwaitAllThrows ==
  /\ lpc = "awaitAll"
  /\ rejected
  /\ lpc' = "threw"
  /\ UNCHANGED <<concurrency, queue, qi, activeCount, waitQueue, inflight,
                 releasing, ocrResults, started, rejected>>
  /\ UNCHANGED <<taskVars, workers, utilVars>>

NextOcr ==
  \/ LoopResume
  \/ \E i \in 1..MaxQueue : PageSucceeds(i)
  \/ \E i \in 1..MaxQueue : PageSucceedsCallbackThrows(i)
  \/ \E i \in 1..MaxQueue : PageFails(i)
  \/ \E r \in releasing : ReleaseSlot(r)
  \/ AwaitAllReturns
  \/ AwaitAllThrows

\* no task call is running
TaskIdle ==
  /\ progress = NoProgress
  /\ pageResults = [i \in Pages |-> NoResult]
  /\ processedPages = {}
  /\ failedPages = {}
  /\ call = IdleCall
  /\ cpc = "idle" /\ cseen = ABSENT /\ cprog = NoProgress
  /\ delpc = "idle" /\ delKeys = NoKeys
  /\ nInv = 0 /\ nEnv = 0
  /\ docPages = 1

NextTask ==
  \/ StartPaginated \/ PGetOrCreate \/ PSetProcessing \/ PDetermine
  \/ PCheck \/ PProcessorReturns \/ PProcessorThrows
  \/ PSaveOk \/ PMarkOk \/ PCbOkReturns \/ PCbOkReturnsFalse \/ PCbOkThrows
  \/ PSaveFail \/ PMarkFail \/ PCbFailReturns \/ PCbFailReturnsFalse
  \/ PCbFailThrows
  \/ PAggregate \/ PFinal
  \/ StartWhole \/ WGetOrCreate \/ WSetProcessing
  \/ WProcessorReturns \/ WProcessorThrows
  \/ WMarkOk \/ WUpdateOk \/ WMarkFail \/ WUpdateFail
  \/ PStoreFailsInPage \/ PStoreFailsOutside
  \/ WStoreFailsInTry \/ WStoreFailsInCatch
  \/ Crash \/ CancelRead \/ CancelWrite \/ DeleteScan \/ DeleteDel

\* ------------------------------------ concurrent callers of the store
\* every caller is about to issue getOrCreateProgress for the same taskId
InitWorkers ==
  workers = [w \in Workers |-> [IdleWorker EXCEPT !.pc = "create"]]

\* getOrCreateProgress(taskId, total): one EVAL of the Lua script
WorkerGetOrCreate(w) ==
  /\ workers[w].pc = "create"
  /\ \E total \in TotalChoices :
       LET rec == GetOrCreateRecord(progress, total)
       IN /\ progress' = rec
          /\ workers' = [workers EXCEPT ![w] =
                          [@ EXCEPT !.pc = "mark", !.asked = total,
                                    !.got = rec]]
  /\ UNCHANGED <<pageResults, processedPages, failedPages, call, otherVars,
                 budgetVars, ocrVars, utilVars>>

\* markPageAsProcessed(taskId, page): SADD (the EXPIRE changes no value)
WorkerMarkProcessed(w) ==
  /\ workers[w].pc = "mark"
  /\ \E page \in Pages : processedPages' = processedPages \cup {page}
  /\ workers' = [workers EXCEPT ![w] = [@ EXCEPT !.pc = "update"]]
  /\ UNCHANGED <<progress, pageResults, failedPages, call, otherVars,
                 budgetVars, ocrVars, utilVars>>

\* markPageAsFailed(taskId, page)
WorkerMarkFailed(w) ==
  /\ workers[w].pc = "mark"
  /\ \E page \in Pages : failedPages' = failedPages \cup {page}
  /\ workers' = [workers EXCEPT ![w] = [@ EXCEPT !.pc = "update"]]
  /\ UNCHANGED <<progress, pageResults, processedPages, call, otherVars,
                 budgetVars, ocrVars, utilVars>>

\* updateDocumentProgress(taskId): one EVAL of the Lua script
WorkerUpdate(w) ==
  /\ workers[w].pc = "update"
  /\ LET rec == IF progress.status = ABSENT THEN progress
                ELSE UpdateDocumentProgressRecord(progress,
                       Cardinality(processedPages), Cardinality(failedPages),
                       Now)
     IN /\ progress' = rec
        /\ workers' = [workers EXCEPT ![w] =
                        [@ EXCEPT !.pc = "done",
                                  !.updated = UpdateDocumentProgressResult(rec)]]
  /\ UNCHANGED <<pageResults, processedPages, failedPages, call, otherVars,
                 budgetVars, ocrVars, utilVars>>

NextWorkers ==
  \/ \E w \in Workers : WorkerGetOrCreate(w)
  \/ \E w \in Workers : WorkerMarkProcessed(w)
  \/ \E w \in Workers : WorkerMarkFailed(w)
  \/ \E w \in Workers : WorkerUpdate(w)

\* --------------------------------------------- MultiLevelCacheService
CacheKeys == 1..(MaxL1Size + 1)

\* config.l1TTL, in milliseconds
L1TTL == 1

\* set(key, value, ttl?): ttl || config.l1TTL, with ttl left out
TtlChoices == {L1TTL}

L1Keys(c) == { c[i].key : i \in 1..Len(c) }

L1Index(c, k) == CHOOSE i \in 1..Len(c) : c[i].key = k

RemoveAt(c, i) == SubSeq(c, 1, i - 1) \o SubSeq(c, i + 1, Len(c))

\* Map.delete(key)
MapDelete(c, k) == IF k \in L1Keys(c) THEN RemoveAt(c, L1Index(c, k)) ELSE c

\* Map.set(key, entry): an existing key keeps its place in the iteration order
MapSet(c, e) ==
  IF e.key \in L1Keys(c) THEN [c EXCEPT ![L1Index(c, e.key)] = e]
  ELSE Append(c, e)

\* the scan of evictL1: entry.lastAccessed < oldestAccess keeps the first of
\* the entries with the smallest lastAccessed
LruIndex(c) ==
  CHOOSE i \in 1..Len(c) :
    \A j \in 1..Len(c) :
      \/ c[j].lastAccessed > c[i].lastAccessed
      \/ (c[j].lastAccessed = c[i].lastAccessed /\ j >= i)

\* evictL1
EvictL1(c) == IF Len(c) = 0 THEN c ELSE RemoveAt(c, LruIndex(c))

\* setToL1
SetToL1(c, k, ttl, now, maxSize) ==
  MapSet(IF Len(c) >= maxSize THEN EvictL1(c) ELSE c,
         [key |-> k, expiresAt |-> now + ttl, lastAccessed |-> now])

\* Date.now() > entry.expiresAt
Expired(e, now) == now > e.expiresAt

\* the keys of r that are still in the Map, and k as the latest access
Touch(r, c, k) ==
  SelectSeq(r, LAMBDA x : x \in L1Keys(c) /\ x # k) \o
    (IF k \in L1Keys(c) THEN <<k>> ELSE <<>>)

Forget(r, c) == SelectSeq(r, LAMBDA x : x \in L1Keys(c))

CacheIdle ==
  /\ l1Cache = <<>>
  /\ cacheNow = 0
  /\ l1MaxSize = 1
  /\ enableL2 = FALSE
  /\ l2Reads = {}
  /\ recency = <<>>

InitCache ==
  /\ l1Cache = <<>>
  /\ cacheNow = 0
  /\ l1MaxSize \in 1..MaxL1Size
  /\ enableL2 \in BOOLEAN
  /\ l2Reads = {}
  /\ recency = <<>>

\* a millisecond passes
CacheTick ==
  /\ cacheNow < MaxClock
  /\ cacheNow' = cacheNow + 1
  /\ UNCHANGED <<l1Cache, l1MaxSize, enableL2, l2Reads, recency>>
  /\ UNCHANGED notCache

\* set(key, value, ttl): setToL1 runs before the first await; setToL2 changes
\* nothing of L1
CacheSet(k) ==
  /\ \E ttl \in TtlChoices :
       l1Cache' = SetToL1(l1Cache, k, ttl, cacheNow, l1MaxSize)
  /\ recency' = Touch(recency, l1Cache', k)
  /\ UNCHANGED <<cacheNow, l1MaxSize, enableL2, l2Reads>>
  /\ UNCHANGED notCache

\* get(key), L1 hit: entry.lastAccessed = Date.now()
CacheGetHit(k) ==
  /\ k \in L1Keys(l1Cache)
  /\ ~Expired(l1Cache[L1Index(l1Cache, k)], cacheNow)
  /\ l1Cache' = [l1Cache EXCEPT ![L1Index(l1Cache, k)].lastAccessed = cacheNow]
  /\ recency' = Touch(recency, l1Cache', k)
  /\ UNCHANGED <<cacheNow, l1MaxSize, enableL2, l2Reads>>
  /\ UNCHANGED notCache

\* get(key), L1 miss: an expired entry is deleted; with L2 enabled the call
\* awaits redisClient.get (one key is awaited at a time)
CacheGetMiss(k) ==
  /\ \/ k \notin L1Keys(l1Cache)
     \/ /\ k \in L1Keys(l1Cache)
        /\ Expired(l1Cache[L1Index(l1Cache, k)], cacheNow)
  /\ enableL2 => l2Reads \subseteq {k}
  /\ l1Cache' = MapDelete(l1Cache, k)
  /\ recency' = Forget(recency, l1Cache')
  /\ l2Reads' = IF enableL2 THEN l2Reads \cup {k} ELSE l2Reads
  /\ UNCHANGED <<cacheNow, l1MaxSize, enableL2>>
  /\ UNCHANGED notCache

\* redisClient.get answers: a value is written back to L1 with config.l1TTL
CacheL2Answers(k) ==
  /\ k \in l2Reads
  /\ l2Reads' = l2Reads \ {k}
  /\ \E found \in BOOLEAN :
       l1Cache' = IF found
                    THEN SetToL1(l1Cache, k, L1TTL, cacheNow, l1MaxSize)
                    ELSE l1Cache
  /\ recency' = IF l1Cache' = l1Cache THEN recency
                ELSE Touch(recency, l1Cache', k)
  /\ UNCHANGED <<cacheNow, l1MaxSize, enableL2>>
  /\ UNCHANGED notCache

\* delete(key)
CacheDelete(k) ==
  /\ k \in L1Keys(l1Cache)
  /\ l1Cache' = MapDelete(l1Cache, k)
  /\ recency' = Forget(recency, l1Cache')
  /\ UNCHANGED <<cacheNow, l1MaxSize, enableL2, l2Reads>>
  /\ UNCHANGED notCache

\* cleanupExpired, run by the interval timer
CacheCleanupExpired ==
  /\ \E i \in 1..Len(l1Cache) : Expired(l1Cache[i], cacheNow)
  /\ l1Cache' = SelectSeq(l1Cache, LAMBDA e : ~Expired(e, cacheNow))
  /\ recency' = Forget(recency, l1Cache')
  /\ UNCHANGED <<cacheNow, l1MaxSize, enableL2, l2Reads>>
  /\ UNCHANGED notCache

CacheNext ==
  \/ CacheTick
  \/ \E k \in CacheKeys : CacheSet(k)
  \/ \E k \in CacheKeys : CacheGetHit(k)
  \/ \E k \in CacheKeys : CacheGetMiss(k)
  \/ \E k \in CacheKeys : CacheL2Answers(k)
  \/ \E k \in CacheKeys : CacheDelete(k)
  \/ CacheCleanupExpired

\* ------------------------------------- deleteTask and cleanupOldTasks
\* task ids are strings, written character by character
IdChars == {"a", ":"}

\* ids that begin with a letter
TaskIds == { t \in SeqsUpTo(IdChars, MaxIdLen) : t # <<>> /\ t[1] = "a" }

\* keyPrefix = 'document:task'
keyPrefix == <<"document", ":", "task">>

getProgressKey(taskId) == keyPrefix \o <<":">> \o taskId \o <<":", "progress">>

getPageResultKey(taskId, pageIndex) ==
  keyPrefix \o <<":">> \o taskId \o <<":", "page", ":", pageIndex>>

getProcessedPagesKey(taskId) ==
  keyPrefix \o <<":">> \o taskId \o <<":", "processed">>

getFailedPagesKey(taskId) == keyPrefix \o <<":">> \o taskId \o <<":", "failed">>

\* every key the store writes for a task (one page)
TaskKeys(taskId) ==
  { getProgressKey(taskId), getPageResultKey(taskId, "1"),
    getProcessedPagesKey(taskId), getFailedPagesKey(taskId) }

\* Redis glob matching of KEYS / SCAN MATCH: '*' stands for any string
RECURSIVE GlobMatch(_, _)
GlobMatch(p, k) ==
  IF p = <<>> THEN k = <<>>
  ELSE IF Head(p) = "*"
    THEN GlobMatch(Tail(p), k) \/ (k # <<>> /\ GlobMatch(p, Tail(k)))
    ELSE k # <<>> /\ Head(k) = Head(p) /\ GlobMatch(Tail(p), Tail(k))

\* deleteTask: `${this.keyPrefix}:${taskId}:*`
DeletePattern(taskId) == keyPrefix \o <<":">> \o taskId \o <<":", "*">>

\* cleanupOldTasks: 'document:task:*:progress'
CleanupPattern == keyPrefix \o <<":", "*", ":", "progress">>

\* safeKeys(pattern)
safeKeys(pattern) == { k \in redisKeys : GlobMatch(pattern, k) }

\* key.slice('document:task:'.length, -':progress'.length)
SliceTaskId(key) == SubSeq(key, Len(keyPrefix) + 2, Len(key) - 2)

TasksPresent == { t \in TaskIds : TaskKeys(t) \cap redisKeys # {} }

IdleDel == [pc |-> "idle", taskId |-> <<>>, keys |-> {}, todo |-> {},
            cleanup |-> FALSE]

KeyIdle ==
  /\ redisKeys = {}
  /\ oldTasks = {}
  /\ del = IdleDel

\* another client runs a task to its end: its four kinds of keys exist
CreateTask(t) ==
  /\ t \notin TasksPresent
  /\ Cardinality(TasksPresent) < MaxTasks
  /\ redisKeys' = redisKeys \cup TaskKeys(t)
  /\ \E old \in BOOLEAN :
       oldTasks' = IF old THEN oldTasks \cup {t} ELSE oldTasks \ {t}
  /\ UNCHANGED del
  /\ UNCHANGED notKey

\* deleteTask(taskId) up to the answer of safeKeys
DeleteTaskKeys(t) ==
  /\ del.pc = "idle"
  /\ del' = [del EXCEPT !.pc = "del", !.taskId = t,
                        !.keys = safeKeys(DeletePattern(t))]
  /\ UNCHANGED <<redisKeys, oldTasks>>
  /\ UNCHANGED notKey

\* deleteTask: redis.del(...keys) when keys.length > 0, then return to the
\* caller (the loop of cleanupOldTasks, or the client)
DeleteTaskDel ==
  /\ del.pc = "del"
  /\ redisKeys' = redisKeys \ del.keys
  /\ oldTasks' = { t \in oldTasks : getProgressKey(t) \in redisKeys' }
  /\ del' = [del EXCEPT !.pc = IF del.cleanup THEN "loop" ELSE "idle",
                        !.keys = {}]
  /\ UNCHANGED notKey

\* cleanupOldTasks up to the answer of scanKeys / keys
CleanupScan ==
  /\ del.pc = "idle"
  /\ del' = [del EXCEPT !.pc = "loop", !.cleanup = TRUE,
                        !.todo = safeKeys(CleanupPattern)]
  /\ UNCHANGED <<redisKeys, oldTasks>>
  /\ UNCHANGED notKey

\* one round of the for loop: redis.get(key); a record with an endTime
\* before the cutoff starts deleteTask(taskId) up to the answer of safeKeys
CleanupGet ==
  /\ del.pc = "loop"
  /\ \E key \in del.todo :
       LET taskId == SliceTaskId(key)
           stale == key \in redisKeys /\ taskId \in oldTasks
       IN  del' = IF stale
                    THEN [del EXCEPT !.pc = "del", !.taskId = taskId,
                                     !.todo = del.todo \ {key},
                                     !.keys = safeKeys(DeletePattern(taskId))]
                    ELSE [del EXCEPT !.todo = del.todo \ {key}]
  /\ UNCHANGED <<redisKeys, oldTasks>>
  /\ UNCHANGED notKey

\* cleanupOldTasks returns cleanedCount
CleanupReturns ==
  /\ del.pc = "loop"
  /\ del.todo = {}
  /\ del' = IdleDel
  /\ UNCHANGED <<redisKeys, oldTasks>>
  /\ UNCHANGED notKey

KeyNext ==
  \/ \E t \in TaskIds : CreateTask(t)
  \/ \E t \in TaskIds : DeleteTaskKeys(t)
  \/ DeleteTaskDel
  \/ CleanupScan
  \/ CleanupGet
  \/ CleanupReturns

\* ------------------------------------------------------ CircuitBreaker
CLOSED == "closed"
OPEN == "open"
HALF_OPEN == "half_open"

NoStats == [totalRequests |-> 0, successCount |-> 0, failureCount |-> 0,
            consecutiveFailures |-> 0, consecutiveSuccesses |-> 0]

\* failureRateThreshold and minimumRequests are optional
NoRate == [num |-> 0, den |-> 1, minimumRequests |-> 0]

RateChoices == {NoRate, [num |-> 1, den |-> 2, minimumRequests |-> 2]}

BreakerConfigChoices ==
  [failureThreshold : 1..MaxThreshold, successThreshold : 1..MaxThreshold,
   resetTimeout : {1}, rate : RateChoices]

Callers == 1..MaxWorkers

IdleExecution == [pc |-> "idle", admitted |-> "none"]

FnRunning == { c \in Callers : executions[c].pc = "running" }

\* the statistics after onSuccess
SuccessStats(st) ==
  [st EXCEPT !.totalRequests = @ + 1, !.successCount = @ + 1,
             !.consecutiveSuccesses = @ + 1, !.consecutiveFailures = 0]

\* the statistics after onFailure
FailureStats(st) ==
  [st EXCEPT !.totalRequests = @ + 1, !.failureCount = @ + 1,
             !.consecutiveFailures = @ + 1, !.consecutiveSuccesses = 0]

\* shouldOpen
shouldOpen(st, cfg) ==
  \/ st.consecutiveFailures >= cfg.failureThreshold
  \/ /\ cfg.rate.num # 0 /\ cfg.rate.minimumRequests # 0
     /\ st.totalRequests >= cfg.rate.minimumRequests
     /\ st.failureCount * cfg.rate.den >= cfg.rate.num * st.totalRequests

\* the check at the head of execute throws CircuitBreakerOpenError
Rejects ==
  /\ state = OPEN
  /\ (breakerNow < nextAttempt \/ halfOpenInFlight)

BreakerIdle ==
  /\ state = CLOSED
  /\ halfOpenInFlight = FALSE
  /\ stats = NoStats
  /\ nextAttempt = 0
  /\ breakerNow = 0
  /\ breakerConfig = [failureThreshold |-> 1, successThreshold |-> 1,
                      resetTimeout |-> 1, rate |-> NoRate]
  /\ executions = [c \in Callers |-> IdleExecution]
  /\ probeSuccesses = 0

InitBreaker ==
  /\ state = CLOSED
  /\ halfOpenInFlight = FALSE
  /\ stats = NoStats
  /\ nextAttempt = 0
  /\ breakerNow = 0
  /\ breakerConfig \in BreakerConfigChoices
  /\ executions = [c \in Callers |-> IdleExecution]
  /\ probeSuccesses = 0

\* a millisecond passes
BreakerTick ==
  /\ breakerNow < MaxClock
  /\ breakerNow' = breakerNow + 1
  /\ UNCHANGED <<state, halfOpenInFlight, stats, nextAttempt, breakerConfig,
                 executions, probeSuccesses>>
  /\ UNCHANGED notBreaker

\* execute(fn) throws CircuitBreakerOpenError before fn is called
ExecuteRejected(c) ==
  /\ executions[c].pc = "idle"
  /\ Rejects
  /\ UNCHANGED breakerVars
  /\ UNCHANGED notBreaker

\* execute(fn) passes the check, from OPEN into HALF_OPEN when the reset
\* time has come, and calls fn
ExecuteInvokes(c) ==
  /\ executions[c].pc = "idle"
  /\ ~Rejects
  /\ stats.totalRequests + Cardinality(FnRunning) < MaxExecutes
  /\ state' = IF state = OPEN THEN HALF_OPEN ELSE state
  /\ halfOpenInFlight' = IF state = OPEN THEN TRUE ELSE halfOpenInFlight
  /\ probeSuccesses' = IF state = OPEN THEN 0 ELSE probeSuccesses
  /\ executions' = [executions EXCEPT ![c] = [pc |-> "running",
                                              admitted |-> state']]
  /\ UNCHANGED <<stats, nextAttempt, breakerNow, breakerConfig>>
  /\ UNCHANGED notBreaker

\* fn resolves before the timeout: onSuccess
FnResolves(c) ==
  /\ executions[c].pc = "running"
  /\ stats' = SuccessStats(stats)
  /\ halfOpenInFlight' = IF state = HALF_OPEN THEN FALSE ELSE halfOpenInFlight
  /\ state' = IF /\ state = HALF_OPEN
                 /\ stats'.consecutiveSuccesses >= breakerConfig.successThreshold
                THEN CLOSED ELSE state
  /\ probeSuccesses' = IF executions[c].admitted = HALF_OPEN
                         THEN probeSuccesses + 1 ELSE probeSuccesses
  /\ executions' = [executions EXCEPT ![c] = IdleExecution]
  /\ UNCHANGED <<nextAttempt, breakerNow, breakerConfig>>
  /\ UNCHANGED notBreaker

\* fn rejects or the timeout fires first: onFailure, then open() when
\* shouldOpen() says so
FnFails(c) ==
  /\ executions[c].pc = "running"
  /\ stats' = FailureStats(stats)
  /\ IF shouldOpen(stats', breakerConfig)
       THEN /\ state' = OPEN
            /\ halfOpenInFlight' = FALSE
            /\ nextAttempt' = breakerNow + breakerConfig.resetTimeout
       ELSE UNCHANGED <<state, halfOpenInFlight, nextAttempt>>
  /\ probeSuccesses' = IF executions[c].admitted = HALF_OPEN
                         THEN 0 ELSE probeSuccesses
  /\ executions' = [executions EXCEPT ![c] = IdleExecution]
  /\ UNCHANGED <<breakerNow, breakerConfig>>
  /\ UNCHANGED notBreaker

BreakerNext ==
  \/ BreakerTick
  \/ \E c \in Callers : ExecuteRejected(c)
  \/ \E c \in Callers : ExecuteInvokes(c)
  \/ \E c \in Callers : FnResolves(c)
  \/ \E c \in Callers : FnFails(c)

\* -------------------------------------------------- RateLimiterService
SLIDING_WINDOW == "sliding_window"
FIXED_WINDOW == "fixed_window"

\* limiters.get(key) === undefined
NoLimiter == [algorithm |-> "none", maxRequests |-> 0, windowMs |-> 0,
              requests |-> <<>>, count |-> 0, windowStart |-> 0]

NoLimitConfig == [algorithm |-> "none", maxRequests |-> 0, windowMs |-> 0]

RateLimitConfigChoices ==
  [algorithm : {SLIDING_WINDOW, FIXED_WINDOW}, maxRequests : 1..MaxRequests,
   windowMs : 1..MaxWindow]

ConfigOf(l) == [algorithm |-> l.algorithm, maxRequests |-> l.maxRequests,
                windowMs |-> l.windowMs]

\* createLimiter: new SlidingWindow(...) or new FixedWindow(...), whose
\* constructor sets windowStart = Date.now()
createLimiter(config, now) ==
  [algorithm |-> config.algorithm, maxRequests |-> config.maxRequests,
   windowMs |-> config.windowMs, requests |-> <<>>, count |-> 0,
   windowStart |-> IF config.algorithm = FIXED_WINDOW THEN now ELSE 0]

\* SlidingWindow.cleanup(now): drops the timestamps <= now - windowMs
cleanup(l, now) ==
  [l EXCEPT !.requests = SelectSeq(@, LAMBDA t : t > now - l.windowMs)]

\* FixedWindow.resetIfNeeded(now)
resetIfNeeded(l, now) ==
  IF now >= l.windowStart + l.windowMs
    THEN [l EXCEPT !.count = 0, !.windowStart = now]
    ELSE l

\* the part of tryConsume and getRemaining that runs before the test
Refreshed(l, now) ==
  IF l.algorithm = SLIDING_WINDOW THEN cleanup(l, now) ELSE resetIfNeeded(l, now)

\* the test of tryConsume
HasRoom(l) ==
  IF l.algorithm = SLIDING_WINDOW THEN Len(l.requests) < l.maxRequests
  ELSE l.count < l.maxRequests

\* tryConsume: the limiter afterwards
tryConsume(l, now) ==
  LET r == Refreshed(l, now)
  IN  IF ~HasRoom(r) THEN r
      ELSE IF r.algorithm = SLIDING_WINDOW
        THEN [r EXCEPT !.requests = Append(@, now)]
        ELSE [r EXCEPT !.count = @ + 1]

\* getRemaining
getRemaining(l, now) ==
  LET r == Refreshed(l, now)
      used == IF r.algorithm = SLIDING_WINDOW THEN Len(r.requests) ELSE r.count
  IN  IF r.maxRequests - used > 0 THEN r.maxRequests - used ELSE 0

\* getResetAt
getResetAt(l, now) ==
  IF l.algorithm = SLIDING_WINDOW
    THEN IF Len(l.requests) = 0 THEN now ELSE l.requests[1] + l.windowMs
    ELSE l.windowStart + l.windowMs

LimiterIdle ==
  /\ limiter = NoLimiter
  /\ limiterNow = 0
  /\ keyConfig = NoLimitConfig
  /\ allowedAt = <<>>

\* a millisecond passes
LimiterTick ==
  /\ limiterNow < MaxTime
  /\ limiterNow' = limiterNow + 1
  /\ UNCHANGED <<limiter, keyConfig, allowedAt>>
  /\ UNCHANGED notLimiter

\* checkLimit(key, config): the limiter of the key is created from config
\* only when the key has none; tryConsume, getRemaining and getResetAt follow
CheckLimit(config) ==
  LET created == limiter = NoLimiter
      before == IF created THEN createLimiter(config, limiterNow) ELSE limiter
      allowed == HasRoom(Refreshed(before, limiterNow))
      log == IF created /\ config # keyConfig THEN <<>> ELSE allowedAt
  IN  /\ limiter' = tryConsume(before, limiterNow)
      /\ keyConfig' = IF created THEN config ELSE keyConfig
      /\ allowedAt' = IF allowed THEN Append(log, limiterNow) ELSE log
      /\ UNCHANGED limiterNow
      /\ UNCHANGED notLimiter

\* cleanupStaleLimiters, run by the interval timer: getResetAt is read
\* before getRemaining refreshes the limiter
CleanupStaleLimiters ==
  /\ limiter # NoLimiter
  /\ limiter' = IF /\ getResetAt(limiter, limiterNow) <= limiterNow
                   /\ getRemaining(limiter, limiterNow) > 0
                  THEN NoLimiter
                  ELSE Refreshed(limiter, limiterNow)
  /\ UNCHANGED <<limiterNow, keyConfig, allowedAt>>
  /\ UNCHANGED notLimiter

LimiterNext ==
  \/ LimiterTick
  \/ \E config \in RateLimitConfigChoices : CheckLimit(config)
  \/ CleanupStaleLimiters

UtilIdle == CacheIdle /\ KeyIdle /\ BreakerIdle /\ LimiterIdle
EngineIdle == TaskIdle /\ OcrIdle

Init == InitTask /\ OcrIdle /\ UtilIdle

Next == NextTask

Spec == Init /\ [][Next]_vars

\* processDocument alone
DispatchInit == InitOcr /\ TaskIdle /\ UtilIdle

DispatchNext == NextOcr

\* MultiLevelCacheService alone
CacheInit ==
  EngineIdle /\ InitCache /\ KeyIdle /\ BreakerIdle /\ LimiterIdle

\* deleteTask and cleanupOldTasks over a keyspace of several tasks
KeyInit ==
  EngineIdle /\ CacheIdle /\ KeyIdle /\ BreakerIdle /\ LimiterIdle

\* one CircuitBreaker under concurrent execute() calls
BreakerInit ==
  EngineIdle /\ CacheIdle /\ KeyIdle /\ InitBreaker /\ LimiterIdle

\* RateLimiterService with one key
LimiterInit ==
  EngineIdle /\ CacheIdle /\ KeyIdle /\ BreakerIdle /\ LimiterIdle

LimiterSpec == LimiterInit /\ [][LimiterNext]_vars

BreakerSpec == BreakerInit /\ [][BreakerNext]_vars

KeySpec == KeyInit /\ [][KeyNext]_vars

CacheSpec == CacheInit /\ [][CacheNext]_vars

\* the store under concurrent callers alone
ConcurrentInit ==
  /\ TaskIdle
  /\ concurrency = 1 /\ queue = <<>> /\ qi = 1 /\ lpc = "idle"
  /\ activeCount = 0 /\ waitQueue = <<>> /\ inflight = {} /\ releasing = {}
  /\ ocrResults = <<>> /\ started = <<>> /\ rejected = FALSE
  /\ InitWorkers
  /\ UtilIdle

ConcurrentNext == NextWorkers

ConcurrentSpec == ConcurrentInit /\ [][ConcurrentNext]_vars

DispatchSpec == DispatchInit /\ [][DispatchNext]_vars

\* the event loop runs every continuation that is due, and every page settles
FairDispatchSpec == DispatchSpec /\ WF_vars(DispatchNext)

\* ======================================================== properties
\* the call returned from its "already completed" test
EarlyReturned == call.pc = "returned" /\ call.progress.status = COMPLETED

\* the page loop was left through its cancellation break
CancelSeen ==
  /\ call.pc \in {"p_aggregate", "p_final", "returned"}
  /\ call.idx <= Len(call.pagesToProcess)

\* a processWithPagination call without filters that returned and was not cancelled
PlainCallReturned ==
  /\ call.mode = "paginated"
  /\ call.pc = "returned"
  /\ call.config = NoConfig
  /\ ~CancelSeen
  /\ ~call.cancelledDuring

\* M of N: the pages of the document that were in the processed set
AlreadyProcessed == call.resumeProcessed \cap (1..call.totalPages)

\* C1 as stated: on a task of N pages, a call without filters and without
\* cancel passes exactly N - M pages to the page processor, M being the pages
\* already processed, whatever happened to the other pages before (stated
\* here for runs without any crash, cancel, delete or store failure).
C1_ResumeCountAlways ==
  (PlainCallReturned /\ progress.total = call.totalPages /\ nEnv = 0) =>
    Len(call.invoked) = call.totalPages - Cardinality(AlreadyProcessed)

\* C1 amended: the call passes exactly N - M pages to the page processor
\* when the stored status it finds is not 'completed', and none when it is.
C1_ResumeCount ==
  PlainCallReturned =>
    Len(call.invoked) =
      IF EarlyReturned THEN 0
      ELSE call.totalPages - Cardinality(AlreadyProcessed)

\* a resumed call: one page was processed before, the other one is passed on
C1_Witness ==
  /\ PlainCallReturned
  /\ ~EarlyReturned
  /\ Cardinality(AlreadyProcessed) = 1
  /\ Len(call.invoked) = 1
  /\ call.totalPages = 2

\* C2: no page that is in the processed set when a call computes its resume
\* set is passed to the page processor by that call, also after a crash and
\* restart and with processOnlyPages / skipPages.
C2_NoRedo ==
  call.mode = "paginated" =>
    \A i \in 1..Len(call.invoked) : call.invoked[i] \notin call.resumeProcessed

\* a restarted call is processing a page while another page is already done
C2_Witness ==
  /\ call.mode = "paginated"
  /\ call.pc = "p_processing"
  /\ nEnv = 1
  /\ call.resumeProcessed # {}
  /\ Len(call.invoked) = 1

\* the call's own getOrCreateProgress step, when the script answers
GetOrCreateStep ==
  /\ call.pc \in {"p_getOrCreate", "w_getOrCreate"}
  /\ call'.pc \in {"returned", "p_setProcessing", "w_setProcessing"}

\* C3: a processWithPagination or processAsWhole call that finds the stored
\* status 'completed' invokes no processor, leaves every key of the store as
\* it is and returns the stored completed/failed counts (whole mode: status
\* 'completed'); the store being unchanged, a repeated call does the same.
C3_IdempotentCompletion ==
  [][ (GetOrCreateStep /\ progress.status = COMPLETED) =>
        /\ call'.pc = "returned"
        /\ call'.invoked = <<>>
        /\ storeVars' = storeVars
        /\ call.mode = "paginated" =>
             /\ call'.ret.completed = progress.completed
             /\ call'.ret.failed = progress.failed
        /\ call.mode = "whole" => call'.ret.status = COMPLETED ]_vars

\* a second call returned at once from a task completed with a failed page
C3_Witness ==
  /\ EarlyReturned
  /\ call.mode = "paginated"
  /\ call.invoked = <<>>
  /\ call.ret.completed = 1
  /\ call.ret.failed = 1
  /\ progress.status = COMPLETED

\* C4: the number of page-processor calls started and not yet settled never
\* exceeds the configured concurrency, for every page list and interleaving.
C4_ConcurrencyBound == Cardinality(inflight) <= concurrency

\* the bound is reached and the loop waits in the queue for a slot
C4_Witness ==
  /\ concurrency = MaxK
  /\ Cardinality(inflight) = MaxK
  /\ lpc = "waiting"
  /\ waitQueue = <<"loop">>

\* C5: if every page-processor call settles, processDocument starts every
\* submitted page and returns, for any configured concurrency (a rejecting
\* callback apart); pages are started once each, in submission order.
C5_DispatcherProgress ==
  /\ [](started = SubSeq(queue, 1, Len(started)))
  /\ <>(rejected \/ (lpc = "returned" /\ started = queue))

\* a paginated call that returned after running its page loop to the end
LoopCompleted ==
  /\ call.mode = "paginated"
  /\ call.pc = "returned"
  /\ ~EarlyReturned
  /\ ~CancelSeen

HasResultFor(page) ==
  \E j \in 1..Len(call.results) : call.results[j].pageIndex = page

AggregateStep == call.pc = "p_aggregate" /\ call'.pc = "p_final"

CountStatus(rs, st) == Cardinality({ j \in 1..Len(rs) : rs[j].status = st })

\* the first call on a fresh task, without filters, undisturbed, has returned
FirstPlainReturn ==
  /\ LoopCompleted
  /\ call.config = NoConfig
  /\ nInv = 1
  /\ nEnv = 0

\* C7: when the aggregate update finds completed + failed >= total it sets
\* the status to 'failed' exactly when completed = 0 and failed >= 1 and to
\* 'completed' otherwise; so a first run ends 'completed' as soon as one page
\* succeeded and 'failed' when every page threw, with the counts of each.
C7_FinalStatusPolicy ==
  /\ [][ ( /\ AggregateStep
           /\ progress.status # ABSENT
           /\ Cardinality(processedPages) + Cardinality(failedPages)
                >= progress.total ) =>
         /\ progress'.completed = Cardinality(processedPages)
         /\ progress'.failed = Cardinality(failedPages)
         /\ progress'.status = FAILED <=>
              (Cardinality(processedPages) = 0 /\ Cardinality(failedPages) >= 1)
         /\ progress'.status \in {FAILED, COMPLETED} ]_vars
  /\ [](FirstPlainReturn =>
          /\ progress.completed = CountStatus(call.results, "success")
          /\ progress.failed = CountStatus(call.results, "failed")
          /\ call.ret.completed = progress.completed
          /\ call.ret.failed = progress.failed
          /\ progress.status =
               IF CountStatus(call.results, "success") = 0
                  /\ CountStatus(call.results, "failed") >= 1
                 THEN FAILED ELSE COMPLETED)

\* one page succeeded, the other threw: completed = 1, failed = 1, 'completed'
C7_Witness ==
  /\ FirstPlainReturn
  /\ call.results = <<SuccessResult(1), FailedResult(2, "E_page")>>
  /\ progress.completed = 1
  /\ progress.failed = 1
  /\ progress.status = COMPLETED
  /\ pageResults[2] = [status |-> "failed", error |-> "E_page"]

\* C8: when cancelTask has completed during a processWithPagination call, no
\* page processor starts at or after the next status check, and the stored
\* status is 'cancelled' when the call returns.
C8_CancellationBoundary ==
  /\ [][ (call.pc = "p_check" /\ call.cancelledDuring)
           => call'.pc # "p_processing" ]_vars
  /\ []( ( /\ call.mode = "paginated"
           /\ call.pc = "returned"
           /\ call.cancelledDuring
           /\ progress.status # ABSENT ) => progress.status = CANCELLED )

\* the write of cancelTask
CancelWriteStep == cpc = "write" /\ cpc' = "idle"

\* C9: cancelTask on a task it finds completed, failed or cancelled leaves the
\* progress record as it is; on a pending or processing task it stores status
\* 'cancelled' with an endTime.
C9_CancelTerminalNoOp ==
  [][ CancelWriteStep =>
        IF cseen \in Terminal
          THEN progress' = progress
          ELSE progress'.status = CANCELLED /\ progress'.endTime # 0 ]_vars

StatusEdges ==
  { <<PENDING, PROCESSING>>, <<PROCESSING, COMPLETED>>, <<PROCESSING, FAILED>>,
    <<PENDING, CANCELLED>>, <<PROCESSING, CANCELLED>> }

\* C10: a stored status of completed, failed or cancelled is never changed
\* (deleteTask alone removes the record), and every change of a stored status
\* follows an edge of the state machine.
C10_TerminalAbsorbing ==
  [][ /\ progress.status \in Terminal =>
           progress'.status \in {progress.status, ABSENT}
      /\ ( /\ progress.status \in TaskStatus
           /\ progress'.status \in TaskStatus
           /\ progress'.status # progress.status ) =>
           <<progress.status, progress'.status>> \in StatusEdges ]_vars

\* C11: the stored total of an existing task never changes: getOrCreateProgress
\* on an existing record leaves it as it is whatever total is passed, and no
\* step of processWithPagination, processAsWhole, cancelTask or the aggregate
\* update stores another total.
C11_TotalFixed ==
  [][ /\ (GetOrCreateStep /\ progress.status # ABSENT) => progress' = progress
      /\ (progress.status # ABSENT /\ progress'.status # ABSENT) =>
           progress'.total = progress.total ]_vars

\* the callers whose getOrCreateProgress has answered
Created == { w \in Workers : workers[w].pc \in {"mark", "update", "done"} }

\* C12: when several callers issue the first getOrCreateProgress of a task
\* with different totals, one record is created, it is never replaced, and
\* every caller receives it: the same total for all, and the identical record
\* as long as no caller has gone on to update it.
C12_AtomicGetOrCreate ==
  /\ [](\A w \in Created : workers[w].got.total = progress.total)
  /\ [](\A w1, w2 \in Created :
          workers[w1].got.total = workers[w2].got.total)
  /\ []((\A w \in Workers : workers[w].pc \in {"create", "mark", "update"}) =>
          \A w \in Created : workers[w].got = progress)
  /\ [][ progress.status # ABSENT =>
           /\ progress'.status # ABSENT
           /\ progress'.total = progress.total ]_vars

\* two callers asked for different totals and hold the same record
C12_Witness ==
  /\ Created = Workers
  /\ workers[1].asked # workers[2].asked
  /\ workers[1].got = workers[2].got
  /\ workers[1].got.total = workers[1].asked
  /\ progress.total = workers[1].asked

AllWorkersDone == \A w \in Workers : workers[w].pc = "done"

\* C13: once every concurrent caller has finished its markPageAsProcessed or
\* markPageAsFailed followed by updateDocumentProgress, the stored record has
\* completed = |processed set| and failed = |failed set|, and it has a final
\* status and an endTime exactly when completed + failed >= total.
C13_NoLostAggregate ==
  AllWorkersDone =>
    /\ progress.completed = Cardinality(processedPages)
    /\ progress.failed = Cardinality(failedPages)
    /\ (progress.status \in {COMPLETED, FAILED} /\ progress.endTime # 0)
         <=> (progress.completed + progress.failed >= progress.total)
    /\ (progress.completed + progress.failed < progress.total) =>
         (progress.status = PENDING /\ progress.endTime = 0)

\* both marks came before both updates: each update counted both pages
C13_Witness ==
  /\ AllWorkersDone
  /\ progress.total = 2
  /\ processedPages = {1}
  /\ failedPages = {2}
  /\ workers[1].updated.completed + workers[1].updated.failed = 2
  /\ workers[2].updated.completed + workers[2].updated.failed = 2
  /\ progress.status = COMPLETED

\* the task's record exists before and after the step
RecordLives == progress.status # ABSENT /\ progress'.status # ABSENT

\* C14: while the task's record exists, no step (page completion, aggregate
\* update, cancelTask, a new processWithPagination or processAsWhole call)
\* lowers the stored percentage.
C14_PercentageMonotone ==
  [][ RecordLives => progress'.percentage >= progress.percentage ]_vars

\* C15: the stored percentage is within 0..100 in every reachable state, also
\* after a failed page has been retried.
C15_PercentageRange == progress.percentage \in 0..100

\* C16: the stored completed and failed counters are never negative, and while
\* the task's record exists no step lowers either of them, in both modes and
\* when a retry succeeds after a failure.
C16_CountersMonotone ==
  /\ [](progress.completed >= 0 /\ progress.failed >= 0)
  /\ [][ RecordLives =>
           /\ progress'.completed >= progress.completed
           /\ progress'.failed >= progress.failed ]_vars

\* the DEL of deleteTask, after which deleteTask returns
DeleteReturns == delpc = "del" /\ delpc' = "idle"

\* C17: when deleteTask returns, the task has no progress record, no page
\* result, and empty processed and failed sets, whatever happened before.
C17_DeletionComplete ==
  [][ DeleteReturns =>
        /\ progress'.status = ABSENT
        /\ \A i \in Pages : pageResults'[i] = NoResult
        /\ processedPages' = {}
        /\ failedPages' = {} ]_vars

\* the positions of a call at which it awaits the answer of a store operation
StoreCallPcs ==
  {"p_getOrCreate", "p_setProcessing", "p_determine", "p_check", "p_saveOk",
   "p_markOk", "p_saveFail", "p_markFail", "p_aggregate", "p_final",
   "w_getOrCreate", "w_setProcessing", "w_markOk", "w_updateOk", "w_markFail",
   "w_updateFail"}

\* the store operation the call is waiting for rejects
StoreCallRejects ==
  /\ nEnv' = nEnv + 1
  /\ call.pc \in StoreCallPcs
  /\ call'.pc \notin {call.pc, "idle"}

\* C18: a store operation that rejects during processWithPagination or
\* processAsWhole ends the call with that error thrown to the caller: the call
\* does not go on or return a value, and the error is never recorded as the
\* failure of a page.
C18_StoreFailurePropagates ==
  /\ [][ StoreCallRejects =>
           /\ call'.pc = "threw"
           /\ call'.threwBy = "store" ]_vars
  /\ [](\A j \in 1..Len(call.results) : call.results[j].error # "E_store")
  /\ [](\A i \in Pages : pageResults[i].error # "E_store")

\* getOrCreateProgress of a call answers, no store operation having rejected
GetOrCreateAnswers == GetOrCreateStep /\ nEnv' = nEnv

\* cancelTask on a taskId that has no progress record
CancelOfAbsentTask ==
  /\ cpc = "idle" /\ nEnv' = nEnv + 1 /\ call' = call /\ delpc' = delpc
  /\ progress.status = ABSENT

\* C19: configuration errors are surfaced and leave no trace: a processing call
\* whose total is 0 or less ends in an 'invalid argument' error and creates or
\* changes no task state, and cancelTask for a taskId without a record starts
\* no write and changes no task state.
C19_ConfigErrorsSurface ==
  [][ /\ (GetOrCreateAnswers /\ call.totalPages <= 0) =>
           /\ call'.pc = "threw"
           /\ call'.threwBy = "invalidArgument"
           /\ storeVars' = storeVars
      /\ CancelOfAbsentTask => (cpc' = "idle" /\ storeVars' = storeVars) ]_vars

IsSortedByPage(rs) ==
  \A i, j \in 1..Len(rs) : i < j => rs[i].pageIndex <= rs[j].pageIndex

\* C20: the results list a processWithPagination call returns is in ascending
\* page order, for every page selection (processOnlyPages in any order) and
\* every order of completion.
C20_ResultsSorted ==
  (call.mode = "paginated" /\ call.pc = "returned") =>
    IsSortedByPage(call.results)

\* C21: once onPageSuccess or onPageFailed has returned false in a
\* processWithPagination call, that call passes no further page to the page
\* processor.
C21_CallbackEarlyStop ==
  [][ (call.pc = "p_check" /\ call.stopAsked) =>
        call'.pc # "p_processing" ]_vars

\* a processAsWhole call that found the task not completed, has returned, and
\* ran without cancel, delete or rejected store call
WholeCallReturned ==
  /\ call.mode = "whole"
  /\ call.pc = "returned"
  /\ ~EarlyReturned
  /\ nEnv = 0

Determined ==
  /\ call.mode = "paginated"
  /\ \/ call.pc \in {"p_check", "p_processing", "p_saveOk", "p_markOk",
                     "p_cbOk", "p_saveFail", "p_markFail", "p_cbFail",
                     "p_aggregate", "p_final"}
     \/ (call.pc = "returned" /\ ~EarlyReturned)

\* the pages of 1..total that are neither processed nor skipped, within
\* processOnlyPages when that list is not empty
ResumeSet ==
  { i \in 1..call.totalPages :
      /\ i \notin call.resumeProcessed
      /\ i \notin call.config.skip
      /\ \/ Len(call.config.only) = 0
         \/ \E k \in 1..Len(call.config.only) : call.config.only[k] = i }

\* C24: on a task that is not completed the pages a processWithPagination call
\* dispatches are exactly the pages i of 1..total with i not in the processed
\* set and not in skipPages, within processOnlyPages when it is supplied and
\* not empty; the failed set excludes nothing, so a page that failed before and
\* never succeeded is dispatched again.
C24_ResumeSet ==
  /\ [](Determined =>
          /\ { call.pagesToProcess[k] : k \in 1..Len(call.pagesToProcess) }
               = ResumeSet
          /\ Len(call.pagesToProcess) = Cardinality(ResumeSet))
  /\ [](LoopCompleted => call.invoked = call.pagesToProcess)
  /\ [](Determined =>
          call.invoked = SubSeq(call.pagesToProcess, 1, Len(call.invoked)))

\* a later call is processing a page that an earlier call recorded as failed
C24_Witness ==
  /\ Determined
  /\ nInv = 2
  /\ nEnv = 0
  /\ call.pc = "p_processing"
  /\ progress.total = 2
  /\ CurrentPage \in failedPages
  /\ CurrentPage \notin processedPages
  /\ pageResults[CurrentPage].status = "failed"
  /\ Len(call.invoked) = 2

\* the results of the call that carry the page
ResultsFor(page) ==
  { j \in 1..Len(call.results) : call.results[j].pageIndex = page }

\* C25: a processWithPagination call that returns has exactly one result for
\* every page it dispatched, and a result is 'failed' (the page being added
\* to the failed set) only when the page processor itself threw, also when a
\* callback throws or a store write after a successful page is rejected.
C25_OneOutcomePerPage ==
  (call.mode = "paginated" /\ call.pc = "returned") =>
    /\ \A k \in 1..Len(call.invoked) :
         Cardinality(ResultsFor(call.invoked[k])) = 1
    /\ \A j \in 1..Len(call.results) :
         call.results[j].status = "failed" =>
           call.results[j].error = "E_page"

\* C26: a processWithPagination call that returns normally and was not
\* cancelled leaves the record in a final status (completed or failed) with an
\* endTime, for every total and every skipPages / processOnlyPages filter.
C26_EventualFinalization ==
  ( /\ LoopCompleted
    /\ ~call.cancelledDuring
    /\ nEnv = 0 ) =>
      /\ progress.status \in {COMPLETED, FAILED}
      /\ progress.endTime # 0

\* a key that was not in L1 is stored while L1 is full
NewKeyOnFull ==
  /\ Len(l1Cache) >= l1MaxSize
  /\ L1Keys(l1Cache') \ L1Keys(l1Cache) # {}

\* C23: L1 never holds more than l1MaxSize entries, and when a new key is
\* stored while L1 is full exactly one entry is removed: the one whose last
\* get or set is the oldest, so a key that was read after other keys were
\* inserted outlives them.
C23_L1BoundAndLru ==
  /\ [](Len(l1Cache) <= l1MaxSize)
  /\ [][ NewKeyOnFull =>
           L1Keys(l1Cache) \ L1Keys(l1Cache') = {Head(recency)} ]_vars

\* C27: deleteTask(t), called by a client or by cleanupOldTasks, removes only
\* keys of the task t it targets; the progress record, page results,
\* processed set and failed set of every other task id (ids that contain ':'
\* or have t as a prefix included) stay in place.
C27_DeletionIsolation ==
  [][ del.pc = "del" => (redisKeys \ redisKeys') \subseteq TaskKeys(del.taskId) ]_vars

\* the wrapped calls in flight that were admitted in HALF_OPEN
ProbesInFlight == { c \in FnRunning : executions[c].admitted = HALF_OPEN }

\* some execute() call gets its function invoked in this step
SomeFnInvoked ==
  \E c \in Callers : executions[c].pc = "idle" /\ executions'[c].pc = "running"

\* C28: once the breaker has left OPEN for HALF_OPEN, at most one wrapped
\* call is in flight until it is CLOSED or OPEN again, and an execute() that
\* arrives while a half-open probe is in flight does not get its function
\* invoked.
C28_HalfOpenSingleProbe ==
  /\ [](state = HALF_OPEN => Cardinality(ProbesInFlight) <= 1)
  /\ [][ (state = HALF_OPEN /\ ProbesInFlight # {}) => ~SomeFnInvoked ]_vars

\* a call admitted in HALF_OPEN fails in this step
ProbeFails ==
  \E c \in ProbesInFlight :
    /\ executions'[c].pc = "idle"
    /\ stats'.failureCount = stats.failureCount + 1

\* C29: CLOSED goes to OPEN when the failures in a row reach
\* failureThreshold; while OPEN and before the reset time no execute() gets
\* its function invoked; HALF_OPEN goes to CLOSED only after successThreshold
\* successful probes in a row; a failed probe in HALF_OPEN leads to OPEN.
C29_OpenCloseProtocol ==
  /\ [][ ( /\ state = CLOSED
           /\ stats'.consecutiveFailures >= breakerConfig.failureThreshold
           /\ stats'.failureCount # stats.failureCount ) => state' = OPEN ]_vars
  /\ [][ (state = OPEN /\ breakerNow < nextAttempt) => ~SomeFnInvoked ]_vars
  /\ [][ (state = HALF_OPEN /\ state' = CLOSED) =>
           probeSuccesses' >= breakerConfig.successThreshold ]_vars
  /\ [][ (state = HALF_OPEN /\ ProbeFails) => state' = OPEN ]_vars

\* the calls answered allowed = true at a time in [t, t + windowMs)
AllowedWithin(t) ==
  { i \in 1..Len(allowedAt) :
      t <= allowedAt[i] /\ allowedAt[i] < t + keyConfig.windowMs }

\* C30: under the sliding-window and the fixed-window algorithm the calls
\* answered allowed = true within any interval of length windowMs never
\* exceed maxRequests, and a limiter that exists for the key keeps its
\* configuration when checkLimit is called with another config.
C30_RateLimitBound ==
  /\ [](\A t \in 0..MaxTime :
          Cardinality(AllowedWithin(t)) <= keyConfig.maxRequests)
  /\ [][ (limiter # NoLimiter /\ limiter' # NoLimiter) =>
           ConfigOf(limiter') = ConfigOf(limiter) ]_vars

====
